---- MODULE Spec2Model ----
(***************************************************************************)
(* Fare discovery pipeline of nz-au-fares.  Three scanners share the same  *)
(* shape (enumerate queries, call the provider, normalise, filter,         *)
(* accumulate):                                                            *)
(*   grabaseat : src/grabaseat_daily.py              run_scan              *)
(*   amadeus   : src/anz_grabaseat_daily.py          main /                *)
(*                                                   collect_rows_for_pair *)
(*   tequila   : src/nz_trans_tasman_price_watch.py  scan_routes           *)
(* One run executes one script; `script` says which.  Dates are day        *)
(* numbers counted from the day of the run (today = 0).  Python None and   *)
(* an absent key are the string None; an absent label is the empty         *)
(* sequence; prices of the Amadeus script are in cents (Decimal).          *)
(* A fourth script, src/nz_au_premium_daily.py (fetch / safe_get), asks    *)
(* once per route with retries.  After its scan a script writes its        *)
(* result document and hands it to the delivery service, unless DRY_RUN.   *)
(* The month grouping of the reports (month_groups, build_html) runs on    *)
(* calendar dates <<year, month, day>>; the ungrouped tables (render_html, *)
(* build_html of src/scripts/anz_grabaseat_daily.py) on day numbers;       *)
(* compared strings are sequences of code points.                          *)
(***************************************************************************)
EXTENDS Integers, Sequences, FiniteSets, TLC

VARIABLES
    script,   \* which script this run executes
    cfg,      \* the environment-derived configuration of the run
    pc,       \* position of the run in its control flow
    ri,       \* index of the current route in PAIRS / ROUTES
    ci,       \* index of the current cabin
    cur,      \* current departure date of the date loop
    ni,       \* index / value of the current night offset
    q,        \* <<>> or <<the query most recently sent to the provider>>
    data,     \* payload handed to the normaliser (pure-function runs)
    offers,   \* result of the normaliser for `data`
    hits,     \* the accumulated results (all_hits / rows / results / fares)
    budget,   \* non-empty payloads the provider may still return
    tries,    \* outcomes of the attempts made for the current query, in
              \* order; empty again once the loop moves on to the next query
    groups,   \* the sections built for the report, in output order
    doc,      \* None, or the kind of result document the run has written
    sent,     \* the requests sent to the delivery service, in order
    slept     \* the durations (seconds) safe_get has slept for the
              \* current query, in order

vars == <<script, cfg, pc, ri, ci, cur, ni, q, data, offers, hits, budget,
          tries, groups, doc, sent, slept>>

None == "None"

\* ------------------------------------------------------------ model bounds
\* non-empty payloads the provider returns in one run
MaxPayloads == 2
\* items per payload handed to the normaliser in the pure-function runs
MaxItems == 2
\* offers handed to the month grouping in the pure-function runs
MaxRows == 3

\* ------------------------------------------------------- generic helpers
Min(S) == CHOOSE x \in S : \A y \in S : x <= y

RECURSIVE Flatten(_)
Flatten(ss) == IF ss = <<>> THEN <<>> ELSE Head(ss) \o Flatten(Tail(ss))

SeqsUpTo(S, n) == UNION {[1..k -> S] : k \in 0..n}

\* Python `needle in hay` on strings, here on sequences of text tokens.
Contains(hay, needle) ==
    \E i \in 0..(Len(hay) - Len(needle)) :
        \A j \in 1..Len(needle) : hay[i + j] = needle[j]

\* str.lower() on one token
LowerTok(t) ==
    CASE t \in {"Premium", "PREMIUM", "premium"} -> "premium"
      [] t \in {"Economy", "ECONOMY", "economy"} -> "economy"
      [] t \in {"Business", "BUSINESS", "business"} -> "business"
      [] t \in {"Class", "CLASS", "class"} -> "class"
      [] OTHER -> t

\* str.lower() on a label
Lower(label) == [i \in 1..Len(label) |-> LowerTok(label[i])]

\* str.upper() on a carrier code
Upper(s) ==
    CASE s \in {"nz", "NZ"} -> "NZ"
      [] s \in {"qf", "QF"} -> "QF"
      [] OTHER -> s

\* Python `a or b` on strings: None and "" are falsy
OrStr(a, b) == IF a # None /\ a # "" THEN a ELSE b

\* Python `a or b` on labels: "" (and None) is falsy
OrLabel(a, b) == IF a # <<>> THEN a ELSE b

\* A raw date value: k = "none" (absent), "date" (YYYY-MM-DD), "stamp"
\* (YYYY-MM-DDThh:mm:ss, t the time of day) or "bad" (not a date).
NoDate == [k |-> "none", d |-> 0, t |-> 0]
IsoDate(d) == [k |-> "date", d |-> d, t |-> 0]
IsoStamp(d, t) == [k |-> "stamp", d |-> d, t |-> t]
BadDate == [k |-> "bad", d |-> 0, t |-> 0]

OrDate(a, b) == IF a.k # "none" THEN a ELSE b

\* A raw amount: k = "none", "num" (JSON number), "numstr" ("1200"),
\* "badstr" ("n/a").
NoAmount == [k |-> "none", v |-> 0]
Num(v) == [k |-> "num", v |-> v]
NumStr(v) == [k |-> "numstr", v |-> v]
BadStr == [k |-> "badstr", v |-> 0]

\* Python truthiness of an amount: None and 0 are falsy, strings are truthy
AmountTruthy(a) == \/ a.k = "num" /\ a.v # 0
                   \/ a.k \in {"numstr", "badstr"}

\* What one HTTP request to a provider ends in: a 2xx answer whose body is
\* JSON ("ok"), a 2xx answer whose body is no JSON ("badjson"), an HTTP
\* error status, or a transport error such as a timeout ("exc").
Outcomes ==
    {"ok", "badjson", "http401", "http404", "http429", "http500", "exc"}

Last(s) == s[Len(s)]

\* ===================================================== grabaseat_daily.py
MONTHS_AHEAD == 6
RET_MIN_NIGHTS == 28
RET_MAX_NIGHTS == 35
FLEX_DAYS == 3
\* step_days of daterange as run_scan calls it
STEP_DAYS == 7

PAIRS == << <<"AKL", "SYD">>, <<"AKL", "MEL">> >>

CABINS == << [name |-> <<"Premium", " ", "Economy">>, cap |-> 1300],
             [name |-> <<"Business">>, cap |-> 1500] >>

\* search_window: end = start + int(months * 30.42)
search_window(start, months) ==
    <<start, start + ((months * 3042) \div 100)>>

\* daterange: the dates start, start+step, ... that are <= end
daterange(start, end, step_days) ==
    {d \in start..end : (d - start) % step_days = 0}

\* the nights tuple of run_scan
NIGHTS == <<RET_MIN_NIGHTS, (RET_MIN_NIGHTS + RET_MAX_NIGHTS) \div 2,
            RET_MAX_NIGHTS>>

\* build_search_payload: the query sent for (origin, dest, depart, nights)
build_search_payload(origin, dest, depart, nights, flex, cabin) ==
    [origin |-> origin, destination |-> dest, cabin |-> cabin,
     depart |-> depart, ret |-> depart + nights,
     dep_start |-> depart - flex, dep_end |-> depart + flex,
     ret_start |-> depart + nights - flex, ret_end |-> depart + nights + flex]

\* float(total): raises on a non-numeric string
FloatOk(a) == a.k \in {"num", "numstr"}
Float(a) == a.v

\* date.fromisoformat(str(x)[:10]): the first ten characters are the date
\* part; raises when they are not a date
IsoOk(rd) == rd.k \in {"date", "stamp"}
FromIso10(rd) == rd.d

\* The body of the loop of parse_results for one raw item: <<>> when the
\* item is skipped (continue / except), else <<offer>>.
parse_item(item) ==
    IF item.shape # "dict" THEN <<>>
    ELSE IF item.priceShape \in {"null", "scalar"} THEN <<>>
    ELSE
      LET carrier  == Upper(OrStr(item.marketingCarrier, ""))
          operated == Upper(OrStr(item.operatedBy, carrier))
          cabin    == OrLabel(item.cabin, OrLabel(item.cabinClass, <<>>))
          total    == IF item.priceShape = "absent" THEN NoAmount
                      ELSE item.amount
          currency == IF item.priceShape = "absent" THEN None
                      ELSE item.currency
          dep      == OrDate(item.outDate, item.departDate)
          ret      == OrDate(item.inDate, item.returnDate)
          origin   == OrStr(item.origin, item.from)
          dest     == OrStr(item.destination, item.to)
          allSet   == /\ OrStr(origin, None) # None
                      /\ OrStr(dest, None) # None
                      /\ dep.k # "none"
                      /\ ret.k # "none"
                      /\ AmountTruthy(total)
                      /\ OrStr(currency, None) # None
                      /\ cabin # <<>>
      IN  IF ~allSet THEN <<>>
          ELSE IF ~FloatOk(total) THEN <<>>
          ELSE IF ~IsoOk(dep) \/ ~IsoOk(ret) THEN <<>>
          ELSE << [origin |-> origin, dest |-> dest,
                   dep |-> FromIso10(dep), ret |-> FromIso10(ret),
                   cabin |-> cabin,
                   \* float(total) on either branch of the currency test
                   price_nzd |-> IF currency = "NZD" \/ currency = None
                                 THEN Float(total) ELSE Float(total),
                   carrier |-> carrier, operated_by |-> operated] >>

\* parse_results: a payload that is no dict yields nothing; the items are
\* payload["results"] or payload["data"] or []
parse_results(payload) ==
    IF ~payload.isDict THEN <<>>
    ELSE LET items == IF payload.results # <<>> THEN payload.results
                      ELSE payload.data
         IN  Flatten([i \in 1..Len(items) |-> parse_item(items[i])])

\* within_caps with a strict comparison against the cap
within_caps_strict(cabin, price_nzd) ==
    LET m == {i \in 1..Len(CABINS) :
                 Contains(Lower(cabin), Lower(CABINS[i].name))}
    IN  IF m = {} THEN FALSE ELSE price_nzd < CABINS[Min(m)].cap

\* within_caps: the cap of the first CABINS entry whose name occurs in the
\* offer's cabin label decides; no entry, no match
within_caps(cabin, price_nzd) ==
    LET m == {i \in 1..Len(CABINS) :
                 Contains(Lower(cabin), Lower(CABINS[i].name))}
    IN  IF m = {} THEN FALSE ELSE price_nzd <= CABINS[Min(m)].cap

\* the filter of run_scan without its test for a business query
keep_offer_nobus(cabin, off) ==
    /\ ~(Contains(Lower(cabin), <<"premium">>)
         /\ ~Contains(Lower(off.cabin), <<"premium">>))
    /\ off.operated_by = "NZ"
    /\ within_caps(off.cabin, off.price_nzd)

\* the filter of run_scan for one offer under the queried cabin
keep_offer(cabin, off) ==
    /\ ~(Contains(Lower(cabin), <<"premium">>)
         /\ ~Contains(Lower(off.cabin), <<"premium">>))
    /\ ~(Contains(Lower(cabin), <<"business">>)
         /\ ~Contains(Lower(off.cabin), <<"business">>))
    /\ off.operated_by = "NZ"
    /\ within_caps(off.cabin, off.price_nzd)
\* ------------------------------------------------ provider of grabaseat
\* A well-formed raw item of the grabaseat endpoint.
GItem(label, price, dep, ret) ==
    [shape |-> "dict", marketingCarrier |-> "NZ", operatedBy |-> "NZ",
     cabin |-> label, cabinClass |-> <<>>,
     priceShape |-> "obj", amount |-> Num(price), currency |-> "NZD",
     outDate |-> IsoDate(dep), departDate |-> NoDate,
     inDate |-> IsoDate(ret), returnDate |-> NoDate,
     origin |-> "AKL", from |-> None, destination |-> "SYD", to |-> None]

LabelPE == <<"Premium", " ", "Economy">>
LabelBus == <<"Business">>

\* the item most variations start from: premium economy, 1250, 31 nights
GBase == GItem(LabelPE, 1250, 14, 45)

\* Raw items the provider answers a scan query with.
ItemsGScan ==
    { GBase,
      GItem(LabelPE, 1300, 14, 45),
      GItem(LabelPE, 1301, 14, 45),
      GItem(LabelBus, 1500, 14, 45),
      GItem(LabelBus, 1501, 14, 45),
      GItem(<<"business", " ", "class">>, 1500, 14, 45),
      GItem(<<"PREMIUM", "_", "ECONOMY">>, 1250, 14, 45),
      GItem(LabelPE, 1250, 17, 39),
      [GBase EXCEPT !.currency = "AUD"],
      [GBase EXCEPT !.operatedBy = "QF"],
      [GBase EXCEPT !.operatedBy = None, !.marketingCarrier = "nz"],
      [GBase EXCEPT !.operatedBy = None, !.marketingCarrier = "QF"],
      [GBase EXCEPT !.priceShape = "absent"] }

\* what http_post_json returns: {} after an HTTP or transport error, else
\* the decoded JSON document
EmptyPayload == [isDict |-> TRUE, results |-> <<>>, data |-> <<>>]
ResultsPayload(items) == [isDict |-> TRUE, results |-> items, data |-> <<>>]
DataPayload(items) == [isDict |-> TRUE, results |-> <<>>, data |-> items]
ListPayload(items) == [isDict |-> FALSE, results |-> items, data |-> <<>>]

GScanPayloads == {ResultsPayload(<<i>>) : i \in ItemsGScan}

\* http_post_json: the decoded body of a 2xx answer; {} after an HTTP
\* error, a transport error or a body that is no JSON
http_post_json(outcome, body) ==
    IF outcome = "ok" THEN body ELSE EmptyPayload

\* --------------------------------------------------- grabaseat: run, main
GWindow == search_window(0, MONTHS_AHEAD)

GInit ==
    /\ script = "grabaseat"
    /\ cfg \in {[to_email |-> TRUE, dry_run |-> FALSE, brevo |-> TRUE],
                [to_email |-> FALSE, dry_run |-> FALSE, brevo |-> TRUE],
                [to_email |-> TRUE, dry_run |-> TRUE, brevo |-> TRUE],
                [to_email |-> TRUE, dry_run |-> FALSE, brevo |-> FALSE]}
    /\ pc = "main"
    /\ ri = 1 /\ ci = 1 /\ cur = 0 /\ ni = 1
    /\ q = <<>> /\ data = EmptyPayload /\ offers = <<>> /\ hits = <<>>
    /\ budget = MaxPayloads /\ tries = <<>> /\ groups = <<>>
    /\ doc = None /\ sent = <<>> /\ slept = <<>>

\* main: TO_EMAIL is required unless DRY_RUN; then run_scan starts with
\* the first pair, cabin, date and night count
GMain ==
    /\ script = "grabaseat" /\ pc = "main"
    /\ IF ~cfg.to_email /\ ~cfg.dry_run
       THEN pc' = "exit1" /\ UNCHANGED cur
       ELSE pc' = "call" /\ cur' = GWindow[1]
    /\ UNCHANGED <<script, cfg, doc, sent, slept,
                   groups, tries, ri, ci, ni, q, data, offers,
                   hits, budget>>

\* one pass of the innermost loop body of run_scan up to the sleep: build
\* the payload, post it, normalise, filter, accumulate
GAccumulate(payload) ==
    LET cabin == CABINS[ci].name
        offs  == parse_results(payload)
    IN  /\ q' = << build_search_payload(PAIRS[ri][1], PAIRS[ri][2], cur,
                                        NIGHTS[ni], FLEX_DAYS, cabin) >>
        /\ hits' = hits \o SelectSeq(offs, LAMBDA o : keep_offer(cabin, o))
        /\ pc' = "sleep"

GCall ==
    /\ script = "grabaseat" /\ pc = "call"
    /\ \E o \in Outcomes :
       \E body \in IF budget > 0 THEN GScanPayloads \cup {EmptyPayload}
                   ELSE {EmptyPayload} :
          LET payload == http_post_json(o, body)
          IN  /\ GAccumulate(payload)
              /\ budget' = IF payload = EmptyPayload THEN budget
                           ELSE budget - 1
              /\ tries' = <<o>>
    /\ UNCHANGED <<script, cfg, doc, sent, slept,
                   groups, ri, ci, cur, ni, data, offers>>

\* time.sleep, then the loops advance: nights, then depart (daterange),
\* then cabin, then pair
GSleep ==
    /\ script = "grabaseat" /\ pc = "sleep"
    /\ IF ni < Len(NIGHTS)
       THEN ni' = ni + 1 /\ pc' = "call" /\ UNCHANGED <<ri, ci, cur>>
       ELSE IF cur + STEP_DAYS <= GWindow[2]
       THEN /\ cur' = cur + STEP_DAYS /\ ni' = 1 /\ pc' = "call"
            /\ UNCHANGED <<ri, ci>>
       ELSE IF ci < Len(CABINS)
       THEN /\ ci' = ci + 1 /\ cur' = GWindow[1] /\ ni' = 1 /\ pc' = "call"
            /\ UNCHANGED ri
       ELSE IF ri < Len(PAIRS)
       THEN /\ ri' = ri + 1 /\ ci' = 1 /\ cur' = GWindow[1] /\ ni' = 1
            /\ pc' = "call"
       ELSE pc' = "scanned" /\ UNCHANGED <<ri, ci, cur, ni>>
    /\ tries' = <<>>
    /\ UNCHANGED <<script, cfg, doc, sent, slept,
                   groups, q, data, offers, hits, budget>>

\* a request sent to the delivery service and whether it succeeded
Request(what, ok) == [what |-> what, ok |-> ok]

\* main after run_scan: build_html, then out.html is written; without
\* results the document is the one that says no fares matched
GReport ==
    /\ script = "grabaseat" /\ pc = "scanned"
    /\ doc' = IF hits = <<>> THEN "nofares" ELSE "table"
    /\ pc' = "written"
    /\ UNCHANGED <<script, cfg, sent, slept, groups, tries, ri, ci, cur, ni,
                   q, data, offers, hits, budget>>

\* the rest of main: nothing is sent with DRY_RUN; send_brevo sends
\* nothing without BREVO_API_KEY, else one request; a failed email ends
\* the run with exit status 2
GDeliver ==
    /\ script = "grabaseat" /\ pc = "written"
    /\ IF cfg.dry_run THEN pc' = "done" /\ UNCHANGED sent
       ELSE IF ~cfg.brevo THEN pc' = "exit2" /\ UNCHANGED sent
       ELSE \E ok \in BOOLEAN :
               /\ sent' = Append(sent, Request("report", ok))
               /\ pc' = IF ok THEN "done" ELSE "exit2"
    /\ UNCHANGED <<script, cfg, doc, slept, groups, tries, ri, ci, cur, ni,
                   q, data, offers, hits, budget>>

\* ------------------------------------- parse_results as a pure function
\* Raw items handed to the normaliser: the scan items and one variation
\* per field the normaliser reads.
ItemsGParse ==
    ItemsGScan \cup
    { [GBase EXCEPT !.shape = "str"],
      [GBase EXCEPT !.priceShape = "null"],
      [GBase EXCEPT !.priceShape = "scalar"],
      [GBase EXCEPT !.amount = NoAmount],
      [GBase EXCEPT !.amount = Num(0)],
      [GBase EXCEPT !.amount = NumStr(1250)],
      [GBase EXCEPT !.amount = BadStr],
      [GBase EXCEPT !.currency = None],
      [GBase EXCEPT !.currency = ""],
      [GBase EXCEPT !.cabin = <<>>],
      [GBase EXCEPT !.cabin = <<>>, !.cabinClass = LabelBus],
      [GBase EXCEPT !.outDate = NoDate],
      [GBase EXCEPT !.outDate = NoDate, !.departDate = IsoStamp(14, 9)],
      [GBase EXCEPT !.outDate = BadDate],
      [GBase EXCEPT !.inDate = NoDate],
      [GBase EXCEPT !.inDate = NoDate, !.returnDate = IsoDate(45)],
      [GBase EXCEPT !.inDate = BadDate],
      [GBase EXCEPT !.origin = None],
      [GBase EXCEPT !.origin = None, !.from = "AKL"],
      [GBase EXCEPT !.destination = None],
      [GBase EXCEPT !.destination = None, !.to = "MEL"],
      [GBase EXCEPT !.marketingCarrier = None, !.operatedBy = None] }

GParsePayloads ==
    {ResultsPayload(s) : s \in SeqsUpTo(ItemsGParse, MaxItems)}
    \cup {DataPayload(<<i>>) : i \in ItemsGScan}
    \cup {ListPayload(<<GBase>>)}

PInit ==
    /\ script = "parse_results"
    /\ cfg = [to_email |-> TRUE, dry_run |-> TRUE]
    /\ pc = "parse"
    /\ ri = 1 /\ ci = 1 /\ cur = 0 /\ ni = 1
    /\ q = <<>> /\ data \in GParsePayloads /\ offers = <<>> /\ hits = <<>>
    /\ budget = 0 /\ tries = <<>> /\ groups = <<>>
    /\ doc = None /\ sent = <<>> /\ slept = <<>>

PParse ==
    /\ script = "parse_results" /\ pc = "parse"
    /\ offers' = parse_results(data)
    /\ pc' = "parsed"
    /\ UNCHANGED <<script, cfg, doc, sent, slept,
                   groups, tries, ri, ci, cur, ni, q, data,
                   hits, budget>>

\* ================================================ anz_grabaseat_daily.py
ROUTES == << <<"AKL", "SYD">>, <<"AKL", "MEL">> >>

\* defaults of PE_CAP / J_CAP (NZD); prices are Decimals, held in cents
PE_CAP == 1300
J_CAP == 1500
Cents(n) == n * 100

\* main: window_end = today + SCAN_MONTHS * 30
DAYS_PER_MONTH == 30

\* dates are day numbers, today is 0. date.min (0001-01-01) is day
\* 1 - date.today().toordinal(): day -730119 for a run on 2000-01-01 and one
\* day further back with every later day. With the steps of ACfgs the runs
\* are the same for every run date from the year 1643 to the year 2465
DATE_MIN == 0 - 730119

\* a DATE_STEP_DAYS below zero: three departure dates exist before date.min
NEG_STEP == 0 - 300000

\* `cur += dt.timedelta(days=DATE_STEP_DAYS)` raises OverflowError (date
\* value out of range, not caught) when the sum lies before date.min
date_raises(d) == d < DATE_MIN

\* str(cab).upper()
UpperCabin(s) ==
    CASE s \in {"premium_economy", "PREMIUM_ECONOMY"} -> "PREMIUM_ECONOMY"
      [] s \in {"business", "BUSINESS"} -> "BUSINESS"
      [] s \in {"economy", "ECONOMY"} -> "ECONOMY"
      [] OTHER -> s

Truthy(seqOfStr) == SelectSeq(seqOfStr, LAMBDA c : c # None /\ c # "")

\* extract_cabin: first cabin under travelerPricings[].fareDetailsBySegment[],
\* else first cabin / cabinClass under itineraries[].segments[], else UNKNOWN
extract_cabin(offer) ==
    LET tps  == Truthy(Flatten(offer.travelerPricings))
        segs == Flatten(offer.itineraries)
        cabs == Truthy([i \in 1..Len(segs) |->
                          OrStr(segs[i].cabin, segs[i].cabinClass)])
    IN  IF tps # <<>> THEN UpperCabin(Head(tps))
        ELSE IF cabs # <<>> THEN UpperCabin(Head(cabs))
        ELSE "UNKNOWN"

\* extract_price_nzd raises (AttributeError, not caught) when "price" is
\* neither absent/empty nor an object
price_raises(offer) == offer.priceShape = "scalar"

\* extract_price_nzd: None unless the currency is NZD and Decimal() accepts
\* grandTotal; the result NoAmount stands for None
extract_price_nzd(offer) ==
    LET currency == IF offer.priceShape = "obj" THEN offer.currency ELSE None
        total    == IF offer.priceShape = "obj" THEN offer.grandTotal
                    ELSE NoAmount
    IN  IF currency # "NZD" THEN NoAmount
        ELSE IF total.k \in {"num", "numstr"} THEN Num(total.v)
        ELSE NoAmount

\* extract_carrier: carrierCode of the first segment of the first
\* itinerary, "NZ" when there is none
extract_carrier(offer) ==
    IF offer.itineraries # <<>> /\ Head(offer.itineraries) # <<>>
    THEN Head(Head(offer.itineraries)).carrierCode
    ELSE "NZ"

\* the body of `for off in offers` of collect_rows_for_pair: <<>> when the
\* offer is rejected, else <<row>>
row_for_offer(off, origin, dest, dep, ret, peCap, jCap) ==
    LET cabin   == extract_cabin(off)
        price   == extract_price_nzd(off)
        carrier == extract_carrier(off)
    IN  IF cabin \notin {"PREMIUM_ECONOMY", "BUSINESS"} THEN <<>>
        ELSE IF price = NoAmount THEN <<>>
        ELSE IF cabin = "PREMIUM_ECONOMY" /\ price.v > peCap THEN <<>>
        ELSE IF cabin = "BUSINESS" /\ price.v > jCap THEN <<>>
        ELSE << [origin |-> origin, dest |-> dest, dep |-> dep, ret |-> ret,
                 cabin |-> cabin, price |-> price.v, carrier |-> carrier] >>

\* range(MIN_RET_DAYS, MAX_RET_DAYS + 1)
ret_gaps(minRet, maxRet) == minRet..maxRet

\* ---------------------------------------------------- provider of amadeus
ASeg(carrier, operating) ==
    [cabin |-> None, cabinClass |-> None, carrierCode |-> carrier,
     operating |-> operating]

AOffer(cab, cents, carrier, operating) ==
    [travelerPricings |-> << <<cab>> >>,
     itineraries |-> << <<ASeg(carrier, operating)>>,
                        <<ASeg(carrier, operating)>> >>,
     priceShape |-> "obj", currency |-> "NZD", grandTotal |-> NumStr(cents)]

ABase == AOffer("PREMIUM_ECONOMY", 130000, "NZ", "NZ")

ItemsAScan ==
    { ABase,
      AOffer("PREMIUM_ECONOMY", 130001, "NZ", "NZ"),
      AOffer("PREMIUM_ECONOMY", 120000, "QF", "QF"),
      AOffer("BUSINESS", 150000, "NZ", "NZ"),
      AOffer("BUSINESS", 150001, "NZ", "NZ"),
      [ABase EXCEPT !.currency = "AUD"],
      [ABase EXCEPT !.priceShape = "absent"],
      [ABase EXCEPT !.travelerPricings = <<>>],
      [ABase EXCEPT !.priceShape = "scalar"] }

\* the offer lists under "data" of a search answer
AScanPayloads ==
    {<<i>> : i \in ItemsAScan \ {AOffer("PREMIUM_ECONOMY", 120000,
                                         "QF", "QF")}}
    \cup { <<ABase, AOffer("PREMIUM_ECONOMY", 120000, "QF", "QF")>> }

\* JSON bodies of a search answer: {}, an object with "data" (and "meta"),
\* or an array; ANone is Python None
ANone == [k |-> "none", data |-> <<>>]
AEmptyDict == [k |-> "empty", data |-> <<>>]
ADict(offs) == [k |-> "dict", data |-> offs]
AList == [k |-> "list", data |-> <<>>]

ABodies(n) ==
    {AEmptyDict, ADict(<<>>), AList}
    \cup IF n > 0 THEN {ADict(offs) : offs \in AScanPayloads} ELSE {}

\* amadeus_search: resp.json() of a 2xx answer; None after an HTTP error,
\* a transport error or a body that is no JSON
amadeus_search(outcome, body) ==
    IF outcome = "ok" THEN body ELSE ANone

\* ------------------------------------- amadeus: main, collect_rows_for_pair
ACfgs ==
    { [token |-> tk, months |-> m, step |-> st, minRet |-> mm[1],
       maxRet |-> mm[2], dry_run |-> dl[1], brevo |-> dl[2]] :
        tk \in BOOLEAN, m \in {0, 1}, st \in {NEG_STEP, 0, 30},
        mm \in {<<1, 2>>, <<2, 1>>},
        dl \in {<<FALSE, TRUE>>, <<TRUE, TRUE>>, <<FALSE, FALSE>>} }

AInit ==
    /\ script = "amadeus"
    /\ cfg \in {c \in ACfgs :
                  (~c.token \/ c.dry_run \/ ~c.brevo) =>
                      (c.months = 1 /\ c.step = 30 /\ c.minRet = 1)}
    /\ pc = "main"
    /\ ri = 1 /\ ci = 1 /\ cur = 0 /\ ni = 1
    /\ q = <<>> /\ data = EmptyPayload /\ offers = <<>> /\ hits = <<>>
    /\ budget = MaxPayloads /\ tries = <<>> /\ groups = <<>>
    /\ doc = None /\ sent = <<>> /\ slept = <<>>

AEnd == cfg.months * DAYS_PER_MONTH

\* main: no token, no scan; else the first route is scanned from today
AMain ==
    /\ script = "amadeus" /\ pc = "main"
    /\ pc' = IF cfg.token THEN "while" ELSE "return"
    /\ UNCHANGED <<script, cfg, doc, sent, slept,
                   groups, tries, ri, ci, cur, ni, q, data,
                   offers, hits,
                   budget>>

\* `while cur <= end_date`: enter the ret_gap loop, or (empty range) step
\* the date, which raises before date.min; past the end, return the rows and go on to the next route
AWhile ==
    /\ script = "amadeus" /\ pc = "while"
    /\ IF cur <= AEnd
       THEN IF ret_gaps(cfg.minRet, cfg.maxRet) # {}
            THEN /\ ni' = Min(ret_gaps(cfg.minRet, cfg.maxRet))
                 /\ pc' = "call" /\ UNCHANGED <<ri, cur>>
            ELSE IF date_raises(cur + cfg.step)
                 THEN pc' = "crashed" /\ UNCHANGED <<ri, cur, ni>>
                 ELSE cur' = cur + cfg.step /\ UNCHANGED <<pc, ri, ni>>
       ELSE IF ri < Len(ROUTES)
            THEN ri' = ri + 1 /\ cur' = 0 /\ UNCHANGED <<pc, ni>>
            ELSE pc' = "scanned" /\ UNCHANGED <<ri, cur, ni>>
    /\ UNCHANGED <<script, cfg, doc, sent, slept,
                   groups, tries, ci, q, data, offers, hits,
                   budget>>

\* the next ret_gap, or the end of the for loop and `cur += step`, which
\* raises before date.min and ends main with the traceback
ANextGap ==
    IF ni + 1 \in ret_gaps(cfg.minRet, cfg.maxRet)
    THEN ni' = ni + 1 /\ pc' = "call" /\ cur' = cur
    ELSE IF date_raises(cur + cfg.step)
         THEN pc' = "crashed" /\ cur' = cur /\ ni' = ni
         ELSE cur' = cur + cfg.step /\ pc' = "while" /\ ni' = ni

AQuery == [origin |-> ROUTES[ri][1], destination |-> ROUTES[ri][2],
           depart |-> cur, ret |-> cur + ni]

\* amadeus_search answered with offers: filter and append, then sleep
AAccumulate(offs) ==
    /\ hits' = hits \o Flatten([i \in 1..Len(offs) |->
                  row_for_offer(offs[i], ROUTES[ri][1], ROUTES[ri][2],
                                cur, cur + ni, Cents(PE_CAP), Cents(J_CAP))])
    /\ pc' = "sleep"
    /\ UNCHANGED <<cur, ni>>

\* one pass of the body of the ret_gap loop: `if not data: continue`
\* skips the rest of the body, the sleep included; data.get on a JSON
\* array and extract_price_nzd on a scalar price raise (not caught)
ACall ==
    /\ script = "amadeus" /\ pc = "call"
    /\ q' = <<AQuery>>
    /\ \E o \in Outcomes :
       \E body \in ABodies(budget) :
          LET d == amadeus_search(o, body)
          IN  /\ tries' = <<o>>
              /\ IF d.k \in {"none", "empty"}
                 THEN pc' = "continue" /\ UNCHANGED <<hits, cur, ni>>
                 ELSE IF d.k = "list"
                         \/ \E i \in 1..Len(d.data) : price_raises(d.data[i])
                 THEN pc' = "crashed" /\ UNCHANGED <<hits, cur, ni>>
                 ELSE AAccumulate(d.data)
              /\ budget' = IF d.data # <<>> THEN budget - 1 ELSE budget
    /\ UNCHANGED <<script, cfg, doc, sent, slept,
                   groups, ri, ci, data, offers>>

\* `continue`: straight on to the next ret_gap
AContinue ==
    /\ script = "amadeus" /\ pc = "continue"
    /\ ANextGap
    /\ tries' = <<>>
    /\ UNCHANGED <<script, cfg, doc, sent, slept,
                   groups, ri, ci, q, data, offers, hits, budget>>

\* time.sleep(0.4), then the next ret_gap
ASleep ==
    /\ script = "amadeus" /\ pc = "sleep"
    /\ ANextGap
    /\ tries' = <<>>
    /\ UNCHANGED <<script, cfg, doc, sent, slept,
                   groups, ri, ci, q, data, offers, hits, budget>>

\* main after the routes: render_html, then out_nz_au.html is written;
\* without rows the document is the one that says no qualifying fares
AReport ==
    /\ script = "amadeus" /\ pc = "scanned"
    /\ doc' = IF hits = <<>> THEN "nofares" ELSE "table"
    /\ pc' = "written"
    /\ UNCHANGED <<script, cfg, sent, slept, groups, tries, ri, ci, cur, ni,
                   q, data, offers, hits, budget>>

\* the rest of main: nothing is sent with DRY_RUN; send_brevo_email
\* sends nothing without its Brevo configuration, else one request whose
\* result main ignores
ADeliver ==
    /\ script = "amadeus" /\ pc = "written"
    /\ IF cfg.dry_run \/ ~cfg.brevo THEN UNCHANGED sent
       ELSE \E ok \in BOOLEAN : sent' = Append(sent, Request("report", ok))
    /\ pc' = "done"
    /\ UNCHANGED <<script, cfg, doc, slept, groups, tries, ri, ci, cur, ni,
                   q, data, offers, hits, budget>>

\* ========================================= nz_trans_tasman_price_watch.py
\* ROUTES defaults to AKL:SYD,AKL:MEL, the same pairs as above
TCABINS == <<"W", "C">>

\* defaults of PREM_MAX_NZD / BUS_MAX_NZD
PREM_MAX == 1300
BUS_MAX == 1500

\* CABIN_MAX_NZD.get(cabin, 0)
CABIN_MAX_NZD(cabin) ==
    CASE cabin = "W" -> PREM_MAX
      [] cabin = "C" -> BUS_MAX
      [] OTHER -> 0

\* A provider price is a JSON number, held in half dollars: k = "none"
\* (no "price" key), "num", or "str" (not a number).
NoPrice == [k |-> "none", halves |-> 0]
Halves(h) == [k |-> "num", halves |-> h]
StrPrice == [k |-> "str", halves |-> 0]

\* price_nzd: int(math.ceil(item.get("price", 0))); raises on a non-number
price_nzd_raises(item) == item.price.k = "str"
price_nzd(item) ==
    IF item.price.k = "none" THEN 0 ELSE (item.price.halves + 1) \div 2

\* within_cap
within_cap(cabin, price) == price <= CABIN_MAX_NZD(cabin)

\* parse_date: the part before "T", then date.fromisoformat; raises on
\* anything else (and the caller's ["local_departure"] on a missing key)
parse_date_raises(rd) == rd.k \notin {"date", "stamp"}
parse_date(rd) == rd.d

Max(S) == CHOOSE x \in S : \A y \in S : x >= y

\* the two segments extract_itinerary reads its dates from: the first
\* segment leaving `origin` and the last one arriving there, else the first
\* and the last segment of the route
date_legs(rts, origin) ==
    LET outs == {i \in 1..Len(rts) : rts[i].flyFrom = origin}
        rets == {i \in 1..Len(rts) : rts[i].flyTo = origin}
    IN  IF outs = {} \/ rets = {} THEN <<rts[1], rts[Len(rts)]>>
        ELSE <<rts[Min(outs)], rts[Max(rets)]>>

\* `top_fare_cat and top_fare_cat != cabin`
fare_mismatch(item, cabin) ==
    OrStr(item.fare_category, None) # None /\ item.fare_category # cabin

\* extract_itinerary raises (KeyError / ValueError / TypeError)
extract_raises(item, cabin, origin) ==
    /\ item.route # <<>>
    /\ LET legs == date_legs(item.route, origin)
       IN  \/ parse_date_raises(legs[1].local_departure)
           \/ parse_date_raises(legs[2].local_departure)
           \/ ~fare_mismatch(item, cabin) /\ price_nzd_raises(item)

\* extract_itinerary when it does not raise: <<>> for None, else <<record>>
extract_itinerary(item, cabin, origin, dest) ==
    IF item.route = <<>> THEN <<>>
    ELSE IF fare_mismatch(item, cabin) THEN <<>>
    ELSE IF ~within_cap(cabin, price_nzd(item)) THEN <<>>
    ELSE LET legs == date_legs(item.route, origin)
         IN  << [origin |-> origin, dest |-> dest,
                 depart_date |-> parse_date(legs[1].local_departure),
                 return_date |-> parse_date(legs[2].local_departure),
                 cabin |-> cabin, price_nzd |-> price_nzd(item),
                 airline |-> "NZ"] >>

\* ---------------------------------------------------- provider of tequila
TSeg(from, to, ld) == [flyFrom |-> from, flyTo |-> to, local_departure |-> ld]

TItem(fare, price, dep, ret) ==
    [route |-> <<TSeg("AKL", "SYD", IsoStamp(dep, 7)),
                 TSeg("SYD", "AKL", IsoStamp(ret, 18))>>,
     fare_category |-> fare, price |-> price]

TBase == TItem(None, Halves(2600), 20, 30)

ItemsTScan ==
    { TBase,
      TItem("W", Halves(2400), 20, 30),
      TItem("W", Halves(2601), 20, 30),
      TItem("C", Halves(3000), 20, 30),
      TItem("W", NoPrice, 20, 30),
      [TBase EXCEPT !.route = <<>>],
      [TBase EXCEPT !.route = <<TSeg("AKL", "SYD", NoDate),
                                TSeg("SYD", "AKL", IsoStamp(30, 18))>>] }

TScanPayloads ==
    {<<i>> : i \in ItemsTScan}
    \cup { <<TBase, TItem("W", Halves(2400), 20, 30)>>,
           <<[TBase EXCEPT !.route = <<TSeg("AKL", "SYD", NoDate),
                                       TSeg("SYD", "AKL", IsoStamp(30, 18))>>],
             TBase>> }

\* JSON bodies of a search answer, shaped as those of amadeus
TBodies(n) ==
    {AEmptyDict, AList}
    \cup IF n > 0 THEN {ADict(items) : items \in TScanPayloads} ELSE {}

\* tequila_search_roundtrip raises: no API key (before any request), an
\* HTTP or transport error, a body that is no JSON (http_get_json), or
\* data.get on a JSON array
tequila_search_raises(key, outcome, body) ==
    ~key \/ outcome # "ok" \/ body.k = "list"

\* tequila_search_roundtrip: data.get("data", [])
tequila_search_roundtrip(body) == body.data

\* ------------------------------------------------- tequila: scan_routes
TInit ==
    /\ script = "tequila"
    /\ cfg \in {[key |-> k, dry_run |-> dr, webhook |-> wh] :
                   k \in BOOLEAN, dr \in BOOLEAN, wh \in BOOLEAN}
    /\ pc = "call"
    /\ ri = 1 /\ ci = 1 /\ cur = 0 /\ ni = 1
    /\ q = <<>> /\ data = EmptyPayload /\ offers = <<>> /\ hits = <<>>
    /\ budget = MaxPayloads /\ tries = <<>> /\ groups = <<>>
    /\ doc = None /\ sent = <<>> /\ slept = <<>>

\* results after the items of one answer, up to the first item on which
\* extract_itinerary raises
RECURSIVE TAppend(_, _, _, _, _)
TAppend(res, items, cabin, origin, dest) ==
    IF items = <<>> \/ extract_raises(Head(items), cabin, origin) THEN res
    ELSE TAppend(res \o extract_itinerary(Head(items), cabin, origin, dest),
                 Tail(items), cabin, origin, dest)

TAccumulate(items) ==
    LET cabin == TCABINS[ci]
        o     == ROUTES[ri][1]
        d     == ROUTES[ri][2]
    IN  /\ hits' = TAppend(hits, items, cabin, o, d)
        /\ pc' = IF \E i \in 1..Len(items) : extract_raises(items[i], cabin, o)
                 THEN "crashed" ELSE "sleep"

\* one pass of the cabin loop up to the sleep.  Without TEQUILA_API_KEY
\* the search raises before any request; any exception of the search
\* leaves items = []
TCall ==
    /\ script = "tequila" /\ pc = "call"
    /\ IF ~cfg.key
       THEN TAccumulate(<<>>) /\ UNCHANGED <<q, budget, tries>>
       ELSE /\ q' = << [origin |-> ROUTES[ri][1],
                        destination |-> ROUTES[ri][2],
                        cabin |-> TCABINS[ci], date_from |-> 0] >>
            /\ \E o \in Outcomes :
               \E body \in TBodies(budget) :
                  LET items == IF tequila_search_raises(cfg.key, o, body)
                               THEN <<>>
                               ELSE tequila_search_roundtrip(body)
                  IN  /\ TAccumulate(items)
                      /\ budget' = IF items # <<>> THEN budget - 1
                                   ELSE budget
                      /\ tries' = <<o>>
    /\ UNCHANGED <<script, cfg, doc, sent, slept,
                   groups, ri, ci, cur, ni, data, offers>>

TSleep ==
    /\ script = "tequila" /\ pc = "sleep"
    /\ IF ci < Len(TCABINS)
       THEN ci' = ci + 1 /\ pc' = "call" /\ UNCHANGED ri
       ELSE IF ri < Len(ROUTES)
       THEN ri' = ri + 1 /\ ci' = 1 /\ pc' = "call"
       ELSE pc' = "scanned" /\ UNCHANGED <<ri, ci>>
    /\ tries' = <<>>
    /\ UNCHANGED <<script, cfg, doc, sent, slept,
                   groups, cur, ni, q, data, offers, hits,
                   budget>>

\* main after scan_routes: render_html, then out-nz-trans.html is written;
\* without hits the document says there are no results within the caps
TReport ==
    /\ script = "tequila" /\ pc = "scanned"
    /\ doc' = IF hits = <<>> THEN "nofares" ELSE "table"
    /\ pc' = "written"
    /\ UNCHANGED <<script, cfg, sent, slept, groups, tries, ri, ci, cur, ni,
                   q, data, offers, hits, budget>>

\* the rest of main: nothing is sent with DRY_RUN; maybe_post_webhook
\* sends nothing without WEBHOOK_URL, else it posts the report and, when
\* that post raises, posts an alert to the same URL
TDeliver ==
    /\ script = "tequila" /\ pc = "written"
    /\ IF cfg.dry_run \/ ~cfg.webhook THEN UNCHANGED sent
       ELSE \/ sent' = Append(sent, Request("report", TRUE))
            \/ \E ok \in BOOLEAN :
                  sent' = sent \o <<Request("report", FALSE),
                                    Request("alert", ok)>>
    /\ pc' = "done"
    /\ UNCHANGED <<script, cfg, doc, slept, groups, tries, ri, ci, cur, ni,
                   q, data, offers, hits, budget>>

\* ---------------------------------- extract_itinerary as a pure function
ItemsTParse ==
    ItemsTScan \cup
    { TItem("C", Halves(2600), 20, 30),
      TItem("M", Halves(2000), 20, 30),
      TItem("", Halves(2600), 20, 30),
      TItem("W", StrPrice, 20, 30),
      TItem("C", StrPrice, 20, 30),
      TItem(None, NoPrice, 20, 30),
      [TBase EXCEPT !.route = <<TSeg("AKL", "SYD", IsoDate(20)),
                                TSeg("SYD", "AKL", BadDate)>>],
      [TBase EXCEPT !.route = <<TSeg("AKL", "SYD", IsoDate(20))>>],
      [TBase EXCEPT !.route = <<TSeg("WLG", "SYD", IsoDate(19)),
                                TSeg("SYD", "AKL", IsoDate(30))>>],
      [TBase EXCEPT !.route = <<TSeg("AKL", "WLG", IsoDate(20)),
                                TSeg("WLG", "SYD", IsoDate(21)),
                                TSeg("SYD", "WLG", IsoDate(29)),
                                TSeg("WLG", "AKL", IsoDate(30))>>] }

XInit ==
    /\ script = "extract_itinerary"
    /\ cfg = [key |-> TRUE]
    /\ pc = "extract"
    /\ ri \in 1..Len(ROUTES) /\ ci \in 1..Len(TCABINS) /\ cur = 0 /\ ni = 1
    /\ q = <<>> /\ data \in {<<i>> : i \in ItemsTParse} /\ offers = <<>>
    /\ hits = <<>> /\ budget = 0 /\ tries = <<>> /\ groups = <<>>
    /\ doc = None /\ sent = <<>> /\ slept = <<>>

XExtract ==
    /\ script = "extract_itinerary" /\ pc = "extract"
    /\ IF extract_raises(data[1], TCABINS[ci], ROUTES[ri][1])
       THEN pc' = "raised" /\ UNCHANGED offers
       ELSE /\ offers' = extract_itinerary(data[1], TCABINS[ci],
                                           ROUTES[ri][1], ROUTES[ri][2])
            /\ pc' = "parsed"
    /\ UNCHANGED <<script, cfg, doc, sent, slept,
                   groups, tries, ri, ci, cur, ni, q, data,
                   hits, budget>>

\* =================================================== nz_au_premium_daily.py
FROM_PORTS == <<"AKL">>
TO_PORTS == <<"SYD", "MEL", "BNE">>

\* default of PE_PRICE_CAP
PE_PRICE_CAP == 650
RETRIES == 3
BACKOFF_SECONDS == 3

\* the attempt numbers with one attempt more than RETRIES
attempts_one_more == 1..(RETRIES + 1)

\* range(1, RETRIES + 1): the attempt numbers of safe_get
attempts == 1..RETRIES

\* A raw fare of the fares endpoint; its price is absent, a number or a
\* string.  PStr is an entry of "fares" that is no object.
PFare(price) == [shape |-> "dict", price |-> price]
PStr == [shape |-> "str", price |-> NoAmount]

PItems ==
    { PFare(Num(600)), PFare(Num(650)), PFare(Num(651)), PFare(NoAmount),
      PFare(BadStr), PStr }

\* the lists under "fares" of an answer
PFarePayloads ==
    {<<i>> : i \in PItems}
    \cup { <<PFare(Num(600)), PFare(Num(651))>>,
           <<PFare(Num(600)), PStr>> }

\* bodies that are no JSON: some text, or nothing at all
PText == [k |-> "text", data |-> <<>>]
PEmptyText == [k |-> "emptytext", data |-> <<>>]

\* the body an attempt reads, by its outcome
PBodies(outcome, n) ==
    CASE outcome = "ok" ->
            {AEmptyDict, AList}
            \cup IF n > 0 THEN {ADict(fs) : fs \in PFarePayloads} ELSE {}
      [] outcome = "badjson" -> {PText, PEmptyText}
      [] OTHER -> {ANone}

\* x.get on an entry that is no object and `str <= int` raise
fare_raises(x) == x.shape # "dict" \/ x.price.k \in {"numstr", "badstr"}

\* x.get("price", 99999) <= PE_PRICE_CAP
deal(x) ==
    (IF x.price.k = "none" THEN 99999 ELSE x.price.v) <= PE_PRICE_CAP

\* the entries of fares: an error marker {"o", "d", "err"} or a fare with
\* its "deal" flag
ErrMarker(o, d) ==
    [err |-> TRUE, o |-> o, d |-> d, price |-> NoAmount, deal |-> FALSE]
FareEntry(x) ==
    [err |-> FALSE, o |-> None, d |-> None, price |-> x.price,
     deal |-> deal(x)]

\* fetch with the fares appended one by one inside the deal loop: the
\* fares before the one that raises stay in the list, then the marker
fetch_route_partial(r, o, d) ==
    IF r.k \in {"none", "emptytext", "text", "list"} THEN <<ErrMarker(o, d)>>
    ELSE LET bad == {i \in 1..Len(r.data) : fare_raises(r.data[i])}
         IN  IF bad = {} THEN [i \in 1..Len(r.data) |-> FareEntry(r.data[i])]
             ELSE [i \in 1..(Min(bad) - 1) |-> FareEntry(r.data[i])]
                  \o <<ErrMarker(o, d)>>

\* what one pass of the loop body of fetch adds to fares for the text r
\* that safe_get returned: `not r`, json.loads or the deal loop raising
\* give one error marker, else every fare of the answer
fetch_route(r, o, d) ==
    IF r.k \in {"none", "emptytext"} THEN <<ErrMarker(o, d)>>
    ELSE IF r.k \in {"text", "list"} THEN <<ErrMarker(o, d)>>
    ELSE IF \E i \in 1..Len(r.data) : fare_raises(r.data[i])
         THEN <<ErrMarker(o, d)>>
    ELSE [i \in 1..Len(r.data) |-> FareEntry(r.data[i])]

\* --------------------------------------------- premium: fetch, safe_get
FInit ==
    /\ script = "premium"
    /\ cfg \in {[dry_run |-> FALSE, brevo |-> TRUE],
                [dry_run |-> TRUE, brevo |-> TRUE],
                [dry_run |-> FALSE, brevo |-> FALSE]}
    /\ pc = "attempt"
    /\ ri = 1 /\ ci = 1 /\ cur = 0 /\ ni = 1
    /\ q = <<>> /\ data = ANone /\ offers = <<>> /\ hits = <<>>
    /\ budget = MaxPayloads /\ tries = <<>> /\ groups = <<>>
    /\ doc = None /\ sent = <<>> /\ slept = <<>>

FQuery == [origin |-> FROM_PORTS[ri], destination |-> TO_PORTS[ci],
           cabin |-> "premium-economy"]

\* one pass of the loop of safe_get up to the sleep: urlopen, then return
\* the text read, or break on 404 (return None), or fall through to the
\* sleep; ni is the attempt number a
FAttempt ==
    /\ script = "premium" /\ pc = "attempt"
    /\ q' = <<FQuery>>
    /\ \E o \in Outcomes :
       \E body \in PBodies(o, budget) :
          /\ tries' = Append(tries, o)
          /\ IF o \in {"ok", "badjson"} THEN data' = body /\ pc' = "got"
             ELSE IF o = "http404" THEN data' = ANone /\ pc' = "got"
             ELSE pc' = "backoff" /\ UNCHANGED data
          /\ budget' = IF body.data # <<>> THEN budget - 1 ELSE budget
    /\ UNCHANGED <<script, cfg, doc, sent, slept,
                   groups, ri, ci, cur, ni, offers, hits>>

\* time.sleep(a * BACKOFF_SECONDS), the last statement of the loop body,
\* then the next attempt or, after the last one, return None
FBackoff ==
    /\ script = "premium" /\ pc = "backoff"
    /\ slept' = Append(slept, ni * BACKOFF_SECONDS)
    /\ IF ni + 1 \in attempts
       THEN ni' = ni + 1 /\ pc' = "attempt" /\ UNCHANGED data
       ELSE data' = ANone /\ pc' = "got" /\ UNCHANGED ni
    /\ UNCHANGED <<script, cfg, doc, sent, groups, tries, ri, ci, cur, q,
                   offers, hits, budget>>

\* the rest of the loop body of fetch for one destination, then the next
\* destination, the next origin, or the end of fetch
FFetch ==
    /\ script = "premium" /\ pc = "got"
    /\ hits' = hits \o fetch_route(data, FROM_PORTS[ri], TO_PORTS[ci])
    /\ IF ci < Len(TO_PORTS)
       THEN ci' = ci + 1 /\ pc' = "attempt" /\ UNCHANGED ri
       ELSE IF ri < Len(FROM_PORTS)
       THEN ri' = ri + 1 /\ ci' = 1 /\ pc' = "attempt"
       ELSE pc' = "fetched" /\ UNCHANGED <<ri, ci>>
    /\ ni' = 1 /\ tries' = <<>> /\ slept' = <<>> /\ data' = ANone
    /\ UNCHANGED <<script, cfg, doc, sent, groups, cur, q, offers, budget>>

\* html(f) raises KeyError: it reads x['price'] of every entry that is no
\* error marker, and a fare without a price has none (the fares of the
\* model carry their origin, destination and currency)
html_raises(f) ==
    \E i \in DOMAIN f : ~f[i].err /\ f[i].price.k = "none"

\* the rest of the main block: html(fares) is built and handed to send,
\* which sends nothing with DRY_RUN or without BREVO_API_KEY, else one
\* request; when html raises, the except of the main block logs it and
\* send is never called; the script writes no document of its own
FSend ==
    /\ script = "premium" /\ pc = "fetched"
    /\ IF html_raises(hits) \/ cfg.dry_run \/ ~cfg.brevo THEN UNCHANGED sent
       ELSE \E ok \in BOOLEAN : sent' = Append(sent, Request("report", ok))
    /\ pc' = "done"
    /\ UNCHANGED <<script, cfg, doc, slept, groups, tries, ri, ci, cur, ni,
                   q, data, offers, hits, budget>>

\* ========================================================= month grouping
\* The grouping functions get calendar dates: a date is <<year, month,
\* day>>, compared as Python compares dates.  A string that is compared
\* is the sequence of its code points.
MonthNames ==
    <<"January", "February", "March", "April", "May", "June", "July",
      "August", "September", "October", "November", "December">>

\* the code points of an airport code
CodePoints(code) ==
    CASE code = "AKL" -> <<65, 75, 76>>
      [] code = "MEL" -> <<77, 69, 76>>
      [] code = "SYD" -> <<83, 89, 68>>

\* Python's < on two tuples of numbers or two strings
LexLess(a, b) ==
    LET n == IF Len(a) < Len(b) THEN Len(a) ELSE Len(b)
        d == {i \in 1..n : a[i] # b[i]}
    IN  IF d = {} THEN Len(a) < Len(b) ELSE a[Min(d)] < b[Min(d)]

\* list.sort / sorted on entries [k |-> sort key, v |-> value]: stable,
\* ascending in k
RECURSIVE SortPairs(_)
SortPairs(s) ==
    IF s = <<>> THEN <<>>
    ELSE LET x    == s[Len(s)]
             done == SortPairs(SubSeq(s, 1, Len(s) - 1))
             after == {i \in 1..Len(done) : LexLess(x.k, done[i].k)}
         IN  IF after = {} THEN Append(done, x)
             ELSE SubSeq(done, 1, Min(after) - 1) \o <<x>>
                  \o SubSeq(done, Min(after), Len(done))

Values(pairs) == [i \in 1..Len(pairs) |-> pairs[i].v]

\* the keys of a dict filled by setdefault(key, []).append(...), in
\* insertion order
RECURSIVE InsertionOrder(_)
InsertionOrder(ks) ==
    IF ks = <<>> THEN <<>>
    ELSE LET front == InsertionOrder(SubSeq(ks, 1, Len(ks) - 1))
             x     == ks[Len(ks)]
         IN  IF \E i \in DOMAIN front : front[i] = x THEN front
             ELSE Append(front, x)

\* month_key: d.strftime("%Y-%m") with the month written as it is, not
\* padded to two digits, and the year after it
month_key_my(d) ==
    <<48 + (d[2] \div 10), 48 + (d[2] % 10), 45,
      48 + (d[1] \div 1000), 48 + ((d[1] \div 100) % 10),
      48 + ((d[1] \div 10) % 10), 48 + (d[1] % 10)>>

\* month_key: d.strftime("%Y-%m"), e.g. "2025-11"
month_key(d) ==
    <<48 + (d[1] \div 1000), 48 + ((d[1] \div 100) % 10),
      48 + ((d[1] \div 10) % 10), 48 + (d[1] % 10), 45,
      48 + (d[2] \div 10), 48 + (d[2] % 10)>>

\* the rows of a bucket with only the first hit of the month kept
bucket_rows_first(hits_, key, keyOf) ==
    LET all == SelectSeq(hits_, LAMBDA h : keyOf[h] = key)
    IN  IF all = <<>> THEN <<>> ELSE <<all[1]>>

\* buckets.setdefault(k, []).append(h): the hits of one key, in the order
\* of the hits; keyOf maps each hit to its key
bucket_rows(hits_, key, keyOf) ==
    SelectSeq(hits_, LAMBDA h : keyOf[h] = key)

\* month_groups: buckets by month_key of depart_date, each sorted by
\* (price_nzd, depart_date, return_date), the buckets sorted by key
month_groups(hits_) ==
    LET keyOf == [h \in {hits_[i] : i \in DOMAIN hits_} |->
                     month_key(h.depart_date)]
        keys  == InsertionOrder([i \in DOMAIN hits_ |-> keyOf[hits_[i]]])
        sortedRows(k) ==
            LET rows == bucket_rows(hits_, k, keyOf)
            IN  Values(SortPairs([i \in DOMAIN rows |->
                    [k |-> <<rows[i].price_nzd>> \o rows[i].depart_date
                               \o rows[i].return_date,
                     v |-> rows[i]]]))
    IN  Values(SortPairs([i \in DOMAIN keys |->
            [k |-> keys[i],
             v |-> [key |-> keys[i], rows |-> sortedRows(keys[i])]]]))

\* nz_month_key: d.strftime("%B %Y"), e.g. "November 2025"
nz_month_key(d) == <<MonthNames[d[2]], d[1]>>

\* datetime.strptime(k, "%B %Y"): the first day of that month
strptime_BY(k) ==
    <<k[2], CHOOSE m \in DOMAIN MonthNames : MonthNames[m] = k[1], 1>>

\* build_html: the sections of the report, one per month of departure in
\* the order of strptime of the month keys, the rows of each sorted by
\* (origin, dest, dep, price_nzd); no section when there are no results
build_html(results) ==
    LET keyOf == [r \in {results[i] : i \in DOMAIN results} |->
                     nz_month_key(r.dep)]
        keys  == InsertionOrder([i \in DOMAIN results |->
                                     keyOf[results[i]]])
        sortedRows(k) ==
            LET rows == bucket_rows(results, k, keyOf)
            IN  Values(SortPairs([i \in DOMAIN rows |->
                    [k |-> CodePoints(rows[i].origin)
                               \o CodePoints(rows[i].dest)
                               \o rows[i].dep \o <<rows[i].price_nzd>>,
                     v |-> rows[i]]]))
    IN  Values(SortPairs([i \in DOMAIN keys |->
            [k |-> strptime_BY(keys[i]),
             v |-> [key |-> keys[i], rows |-> sortedRows(keys[i])]]]))

\* ------------------------------ month_groups / build_html as functions
\* hits as extract_itinerary builds them
THit(dest, dep, ret, price) ==
    [origin |-> "AKL", dest |-> dest, depart_date |-> dep,
     return_date |-> ret, cabin |-> "W", price_nzd |-> price,
     airline |-> "NZ"]

HitsT ==
    { THit("SYD", <<2025, 12, 5>>, <<2026, 1, 4>>, 1200),
      THit("SYD", <<2025, 12, 20>>, <<2026, 1, 19>>, 900),
      THit("MEL", <<2025, 12, 20>>, <<2026, 1, 17>>, 900),
      THit("MEL", <<2025, 12, 20>>, <<2026, 1, 19>>, 900),
      THit("SYD", <<2026, 1, 3>>, <<2026, 2, 2>>, 1100),
      THit("SYD", <<2026, 4, 10>>, <<2026, 5, 10>>, 1000),
      THit("MEL", <<2026, 10, 1>>, <<2026, 10, 30>>, 800) }

\* offers as parse_results builds them
GHit(dest, dep, ret, price) ==
    [origin |-> "AKL", dest |-> dest, dep |-> dep, ret |-> ret,
     cabin |-> LabelPE, price_nzd |-> price, carrier |-> "NZ",
     operated_by |-> "NZ"]

HitsG ==
    { GHit("SYD", <<2025, 12, 5>>, <<2026, 1, 4>>, 1200),
      GHit("SYD", <<2025, 12, 20>>, <<2026, 1, 19>>, 900),
      GHit("MEL", <<2025, 12, 20>>, <<2026, 1, 17>>, 900),
      GHit("SYD", <<2025, 12, 20>>, <<2026, 1, 17>>, 900),
      GHit("SYD", <<2026, 1, 3>>, <<2026, 2, 2>>, 1100),
      GHit("SYD", <<2026, 4, 10>>, <<2026, 5, 10>>, 1000),
      GHit("MEL", <<2026, 10, 1>>, <<2026, 10, 30>>, 800) }

MInit ==
    /\ script = "month_groups"
    /\ cfg = [key |-> TRUE]
    /\ pc = "group"
    /\ ri = 1 /\ ci = 1 /\ cur = 0 /\ ni = 1
    /\ q = <<>> /\ data = EmptyPayload /\ offers = <<>>
    /\ hits \in SeqsUpTo(HitsT, MaxRows)
    /\ budget = 0 /\ tries = <<>> /\ groups = <<>>
    /\ doc = None /\ sent = <<>> /\ slept = <<>>

MGroup ==
    /\ script = "month_groups" /\ pc = "group"
    /\ groups' = month_groups(hits)
    /\ pc' = "grouped"
    /\ UNCHANGED <<script, cfg, doc, sent, slept,
                   tries, ri, ci, cur, ni, q, data, offers, hits,
                   budget>>

BInit ==
    /\ script = "build_html"
    /\ cfg = [to_email |-> TRUE, dry_run |-> TRUE]
    /\ pc = "build"
    /\ ri = 1 /\ ci = 1 /\ cur = 0 /\ ni = 1
    /\ q = <<>> /\ data = EmptyPayload /\ offers = <<>>
    /\ hits \in SeqsUpTo(HitsG, MaxRows)
    /\ budget = 0 /\ tries = <<>> /\ groups = <<>>
    /\ doc = None /\ sent = <<>> /\ slept = <<>>

BBuild ==
    /\ script = "build_html" /\ pc = "build"
    /\ groups' = build_html(hits)
    /\ pc' = "built"
    /\ UNCHANGED <<script, cfg, doc, sent, slept,
                   tries, ri, ci, cur, ni, q, data, offers, hits,
                   budget>>

\* ------------------------------------------- the ungrouped report tables
\* render_html of anz_grabaseat_daily.py: no table without rows, else one
\* table of the rows sorted by (dep, origin, dest, price)
render_html(rows) ==
    IF rows = <<>> THEN <<>>
    ELSE << [key |-> None,
             rows |-> Values(SortPairs([i \in DOMAIN rows |->
                 [k |-> <<rows[i].dep>> \o CodePoints(rows[i].origin)
                            \o CodePoints(rows[i].dest)
                            \o <<rows[i].price>>,
                  v |-> rows[i]]]))] >>

\* build_html of scripts/anz_grabaseat_daily.py: no table without rows,
\* else one table of the rows sorted by price_nzd
anz_build_html(rows) ==
    IF rows = <<>> THEN <<>>
    ELSE << [key |-> None,
             rows |-> Values(SortPairs([i \in DOMAIN rows |->
                 [k |-> <<rows[i].price_nzd>>, v |-> rows[i]]]))] >>

\* rows as collect_rows_for_pair builds them (price in cents)
ARow(dest, dep, ret, cabin, price) ==
    [origin |-> "AKL", dest |-> dest, dep |-> dep, ret |-> ret,
     cabin |-> cabin, price |-> Cents(price), carrier |-> "NZ"]

RowsA ==
    { ARow("SYD", 0, 8, "PREMIUM_ECONOMY", 1200),
      ARow("SYD", 10, 18, "PREMIUM_ECONOMY", 900),
      ARow("MEL", 10, 18, "PREMIUM_ECONOMY", 900),
      ARow("MEL", 10, 18, "BUSINESS", 900),
      ARow("MEL", 20, 32, "BUSINESS", 1500) }

\* rows as build_dummy_sample builds them and filter_by_threshold keeps
\* them
DRow(dest, depart, ret, cabin, price) ==
    [origin |-> "AKL", dest |-> dest, depart |-> depart, return |-> ret,
     cabin |-> cabin, price_nzd |-> price, carrier |-> "NZ"]

RowsD ==
    { DRow("SYD", 14, 21, "W", 899),
      DRow("MEL", 14, 21, "W", 899),
      DRow("SYD", 45, 49, "J", 1500),
      DRow("SYD", 45, 49, "J", 1200),
      DRow("MEL", 120, 130, "W", 1300) }

RInit ==
    /\ script = "render_html"
    /\ cfg = [token |-> TRUE]
    /\ pc = "render"
    /\ ri = 1 /\ ci = 1 /\ cur = 0 /\ ni = 1
    /\ q = <<>> /\ data = EmptyPayload /\ offers = <<>>
    /\ hits \in SeqsUpTo(RowsA, MaxRows)
    /\ budget = 0 /\ tries = <<>> /\ groups = <<>>
    /\ doc = None /\ sent = <<>> /\ slept = <<>>

RRender ==
    /\ script = "render_html" /\ pc = "render"
    /\ groups' = render_html(hits)
    /\ pc' = "rendered"
    /\ UNCHANGED <<script, cfg, doc, sent, slept, tries, ri, ci, cur, ni, q,
                   data, offers, hits, budget>>

\* main of scripts/anz_grabaseat_daily.py: the rows that passed
\* filter_by_threshold; DRY_RUN (default "1") and the Brevo environment
DInit ==
    /\ script = "anz_build_html"
    /\ cfg \in {[dry_run |-> TRUE, brevo |-> TRUE],
                [dry_run |-> FALSE, brevo |-> TRUE],
                [dry_run |-> FALSE, brevo |-> FALSE]}
    /\ pc = "render"
    /\ ri = 1 /\ ci = 1 /\ cur = 0 /\ ni = 1
    /\ q = <<>> /\ data = EmptyPayload /\ offers = <<>>
    /\ hits \in SeqsUpTo(RowsD, MaxRows)
    /\ budget = 0 /\ tries = <<>> /\ groups = <<>>
    /\ doc = None /\ sent = <<>> /\ slept = <<>>

DBuild ==
    /\ script = "anz_build_html" /\ pc = "render"
    /\ groups' = anz_build_html(hits)
    /\ pc' = "rendered"
    /\ UNCHANGED <<script, cfg, doc, sent, slept, tries, ri, ci, cur, ni, q,
                   data, offers, hits, budget>>

\* the rest of main: with DRY_RUN=1 the HTML is printed and nothing is
\* sent; else send_brevo_email raises without its environment (no
\* request) or sends one request and raises when it fails; main answers
\* either exception with sys.exit(1)
DDeliver ==
    /\ script = "anz_build_html" /\ pc = "rendered"
    /\ IF cfg.dry_run THEN pc' = "done" /\ UNCHANGED sent
       ELSE IF ~cfg.brevo THEN pc' = "exit1" /\ UNCHANGED sent
       ELSE \E ok \in BOOLEAN :
               /\ sent' = Append(sent, Request("report", ok))
               /\ pc' = IF ok THEN "done" ELSE "exit1"
    /\ UNCHANGED <<script, cfg, doc, slept, groups, tries, ri, ci, cur, ni,
                   q, data, offers, hits, budget>>

\* ==================================================== the specification
Init == GInit \/ PInit \/ AInit \/ TInit \/ XInit \/ FInit \/ MInit \/ BInit
        \/ RInit \/ DInit

Next == GMain \/ GCall \/ GSleep \/ GReport \/ GDeliver \/ PParse
        \/ AMain \/ AWhile \/ ACall \/ AContinue \/ ASleep
        \/ AReport \/ ADeliver
        \/ TCall \/ TSleep \/ TReport \/ TDeliver \/ XExtract
        \/ FAttempt \/ FBackoff \/ FFetch \/ FSend
        \/ MGroup \/ BBuild \/ RRender \/ DBuild \/ DDeliver

Spec == Init /\ [][Next]_vars

\* Every script is a sequential program that keeps running until it ends.
SpecFair == Spec /\ WF_vars(Next)

\* The Amadeus scanner alone, running until it ends.
AmadeusNext ==
    AMain \/ AWhile \/ ACall \/ AContinue \/ ASleep \/ AReport \/ ADeliver

SpecAmadeus == AInit /\ [][AmadeusNext]_vars /\ WF_vars(AmadeusNext)
\* ============================================================ properties
Terminal ==
    {"done", "return", "exit1", "exit2", "crashed", "parsed", "raised",
     "grouped", "built", "rendered"}

\* the items of a grabaseat payload, as parse_results selects them
GItemsOf(payload) ==
    IF ~payload.isDict THEN <<>>
    ELSE IF payload.results # <<>> THEN payload.results ELSE payload.data

\* the dedup key (origin, destination, cabin, departureDate, returnDate)
SameKey(a, b) ==
    IF script = "tequila"
    THEN /\ a.origin = b.origin /\ a.dest = b.dest /\ a.cabin = b.cabin
         /\ a.depart_date = b.depart_date /\ a.return_date = b.return_date
    ELSE /\ a.origin = b.origin /\ a.dest = b.dest /\ a.cabin = b.cabin
         /\ a.dep = b.dep /\ a.ret = b.ret

\* C1: when the scan has ended, the accumulated results hold exactly one
\* entry per (origin, destination, cabin, departureDate, returnDate) key
\* (the accumulated results are every eligible offer seen, so the single
\* entry of a key would be its cheapest).
C1_OneEntryPerKey ==
    pc = "scanned" =>
        \A i, j \in DOMAIN hits : SameKey(hits[i], hits[j]) => i = j

\* the cabin a provider label names, and the cap of a cabin
CabinOfLabel(label) ==
    IF Contains(Lower(label), <<"premium", " ", "economy">>) THEN "PE"
    ELSE IF Contains(Lower(label), <<"business">>) THEN "J"
    ELSE "?"

CapOf(kind) ==
    CASE kind = "PE" -> 1300
      [] kind = "J" -> 1500
      [] OTHER -> 0 - 1

\* C2: the price cap is inclusive and per cabin: no accumulated offer is
\* priced above the cap of its cabin, and the cap checks accept exactly
\* the prices <= the cap of the offer's cabin (price = cap included).
C2_PriceCapInclusive ==
    /\ script = "grabaseat" =>
          \A i \in DOMAIN hits :
              hits[i].price_nzd <= CapOf(CabinOfLabel(hits[i].cabin))
    /\ script = "amadeus" =>
          \A i \in DOMAIN hits :
              hits[i].price <=
                  Cents(CapOf(IF hits[i].cabin = "PREMIUM_ECONOMY"
                              THEN "PE" ELSE "J"))
    /\ script = "tequila" =>
          \A i \in DOMAIN hits :
              hits[i].price_nzd <=
                  CapOf(IF hits[i].cabin = "W" THEN "PE" ELSE "J")
    /\ (script = "parse_results" /\ pc = "parsed") =>
          \A i \in DOMAIN offers :
              within_caps(offers[i].cabin, offers[i].price_nzd)
                  <=> offers[i].price_nzd
                          <= CapOf(CabinOfLabel(offers[i].cabin))
    /\ (script = "extract_itinerary" /\ pc = "parsed") =>
          LET item == data[1]
              kind == IF TCABINS[ci] = "W" THEN "PE" ELSE "J"
          IN  (offers # <<>>) <=>
                  /\ item.route # <<>>
                  /\ ~fare_mismatch(item, TCABINS[ci])
                  /\ item.price.k = "num" =>
                         2 * CapOf(kind) >= item.price.halves

\* C2 witness: a scan of grabaseat ended having accumulated a premium
\* economy offer priced exactly at 1300 and a business offer at 1500.
C2_Witness ==
    /\ script = "grabaseat" /\ pc = "scanned"
    /\ \E i \in DOMAIN hits :
          CabinOfLabel(hits[i].cabin) = "PE" /\ hits[i].price_nzd = 1300
    /\ \E i \in DOMAIN hits :
          CabinOfLabel(hits[i].cabin) = "J" /\ hits[i].price_nzd = 1500

\* a grabaseat item lacks price, currency, cabin or one of its dates
GMissing(item) ==
    \/ item.priceShape # "obj"
    \/ item.amount.k = "none"
    \/ OrStr(item.currency, None) = None
    \/ item.cabin = <<>> /\ item.cabinClass = <<>>
    \/ item.outDate.k = "none" /\ item.departDate.k = "none"
    \/ item.inDate.k = "none" /\ item.returnDate.k = "none"

\* a tequila item lacks its price or one of the dates of its legs
TMissing(item) ==
    \/ item.price.k = "none"
    \/ \E i \in DOMAIN item.route : item.route[i].local_departure.k = "none"

\* C3: a raw item that lacks price, currency, cabin or one of its dates
\* yields no offer.
C3_MissingFieldNoOffer ==
    /\ (script = "parse_results" /\ pc = "parsed") =>
          \A i \in DOMAIN GItemsOf(data) :
              (GItemsOf(data)[i].shape = "dict"
               /\ GMissing(GItemsOf(data)[i]))
                  => parse_item(GItemsOf(data)[i]) = <<>>
    /\ (script = "extract_itinerary" /\ pc = "parsed") =>
          (TMissing(data[1]) => offers = <<>>)

\* the currency a grabaseat item states, None when it states none
GCurrency(item) ==
    IF item.priceShape = "obj" THEN OrStr(item.currency, None) ELSE None

\* C4: a raw item whose currency is absent or is not NZD yields no offer.
C4_CurrencyRule ==
    (script = "parse_results" /\ pc = "parsed") =>
        \A i \in DOMAIN GItemsOf(data) :
            (GItemsOf(data)[i].shape = "dict"
             /\ GCurrency(GItemsOf(data)[i]) # "NZD")
                => parse_item(GItemsOf(data)[i]) = <<>>

\* C5: every accumulated offer has NZ as its effective carrier, and the
\* normaliser of grabaseat takes the operating carrier when it is known,
\* the marketing carrier otherwise.
C5_AirlineRule ==
    /\ script = "grabaseat" =>
          \A i \in DOMAIN hits : hits[i].operated_by = "NZ"
    /\ script = "amadeus" =>
          \A i \in DOMAIN hits : hits[i].carrier = "NZ"
    /\ script = "tequila" =>
          \A i \in DOMAIN hits : hits[i].airline = "NZ"
    /\ (script = "parse_results" /\ pc = "parsed") =>
          \A i \in DOMAIN GItemsOf(data) :
              LET item == GItemsOf(data)[i]
                  out  == parse_item(item)
              IN  out # <<>> =>
                      out[1].operated_by =
                          IF OrStr(item.operatedBy, None) # None
                          THEN Upper(item.operatedBy)
                          ELSE Upper(OrStr(item.marketingCarrier, ""))

\* a label naming premium economy only / business only
LabelledPE(label) ==
    /\ Contains(Lower(label), <<"premium">>)
    /\ ~Contains(Lower(label), <<"business">>)

LabelledBus(label) ==
    /\ Contains(Lower(label), <<"business">>)
    /\ ~Contains(Lower(label), <<"premium">>)

\* C6: cabin matching never crosses cabins: a query for business never
\* accumulates an offer labelled premium economy, a query for premium
\* economy never one labelled business, an offer labelled premium economy
\* is held to the premium economy cap, and extract_itinerary yields
\* nothing for an item whose fare category is the other cabin.
C6_NoCabinCrossing ==
    [][ /\ (script = "grabaseat" /\ pc = "call") =>
              \A k \in (Len(hits) + 1)..Len(hits') :
                  LET lab == hits'[k].cabin
                      req == Lower(CABINS[ci].name)
                  IN  /\ Contains(req, <<"business">>) => ~LabelledPE(lab)
                      /\ Contains(req, <<"premium">>) => ~LabelledBus(lab)
                      /\ LabelledPE(lab) => hits'[k].price_nzd <= 1300
        /\ (script = "extract_itinerary" /\ pc = "extract") =>
              /\ (data[1].fare_category = "W" /\ TCABINS[ci] = "C")
                    => offers' = <<>>
              /\ (data[1].fare_category = "C" /\ TCABINS[ci] = "W")
                    => offers' = <<>>
      ]_vars

\* C6 witness: grabaseat has just processed a query for business; the
\* results hold a premium economy offer from the earlier premium economy
\* queries and, last, a business offer.
C6_Witness ==
    /\ script = "grabaseat" /\ pc = "sleep" /\ ci = 2
    /\ hits # <<>>
    /\ LabelledBus(hits[Len(hits)].cabin)
    /\ \E i \in DOMAIN hits : LabelledPE(hits[i].cabin)

\* C7: every accumulated offer stays minNights..maxNights nights.
C7_StayLength ==
    /\ script = "grabaseat" =>
          \A i \in DOMAIN hits :
              /\ RET_MIN_NIGHTS <= hits[i].ret - hits[i].dep
              /\ hits[i].ret - hits[i].dep <= RET_MAX_NIGHTS
    /\ script = "amadeus" =>
          \A i \in DOMAIN hits :
              /\ cfg.minRet <= hits[i].ret - hits[i].dep
              /\ hits[i].ret - hits[i].dep <= cfg.maxRet

\* C8: every query sent has its departure date in [today, today + H].
C8_HorizonBound ==
    q # <<>> =>
        /\ script = "grabaseat" =>
              0 <= q[1].depart /\ q[1].depart <= GWindow[2]
        /\ script = "amadeus" =>
              0 <= q[1].depart /\ q[1].depart <= AEnd
        /\ script = "tequila" => q[1].date_from = 0

\* C9: the enumeration is finite: every run reaches its end.
C9_Terminates == <>(pc \in Terminal)

\* C10: with MIN_RET_DAYS > MAX_RET_DAYS the Amadeus scan sends no query,
\* accumulates nothing and raises nothing.
C10_EmptyNightAxis ==
    (script = "amadeus" /\ cfg.minRet > cfg.maxRet) =>
        q = <<>> /\ hits = <<>> /\ pc # "crashed"

\* failures the retry policy calls retryable (RateLimited / Transient)
Retryable == {"http429", "http500", "exc"}

\* an attempt that was answered 2xx, whatever the body
Answered == {"ok", "badjson"}

\* C11: one query is attempted at most 3 times; no attempt follows an
\* answered one, whose body is what safe_get returns; and safe_get gives
\* up (returns None) after exactly three retryable failures in a row, not
\* earlier.
C11_RetryBudget ==
    /\ Len(tries) <= 3
    /\ script = "premium" =>
          /\ \A i \in 1..(Len(tries) - 1) : tries[i] \notin Answered
          /\ pc = "got" =>
                /\ Last(tries) \in Answered => data.k # "none"
                /\ (\A i \in DOMAIN tries : tries[i] \in Retryable) =>
                       (Len(tries) = 3 /\ data = ANone)
          /\ (pc = "backoff" /\ Len(tries) = 3) =>
                \E i \in DOMAIN tries : tries[i] \notin Answered

\* C11 witness: the second destination failed three times with retryable
\* failures and safe_get has returned None, after the first destination
\* was answered with fares, which are in the results.
C11_Witness ==
    /\ script = "premium" /\ pc = "got" /\ ci = 2
    /\ tries = <<"exc", "http429", "http500">> /\ data = ANone
    /\ hits # <<>> /\ ~hits[1].err

AuthFailed == tries # <<>> /\ Last(tries) = "http401"

\* the run has ended signalling failure (sys.exit(1), uncaught exception)
Fatal == {"exit1", "crashed"}

\* C12: an authentication failure is never retried, and once a query has
\* been answered with one the run has aborted signalling failure (so no
\* further query is attempted).
C12_AuthFailureFatal ==
    /\ \A i \in 1..(Len(tries) - 1) : tries[i] # "http401"
    /\ AuthFailed => pc \in Fatal

NotFound(t) == t # <<>> /\ Last(t) = "http404"

\* C13: a 404 answer ends the query after that one attempt, and neither
\* the answer nor its handling adds anything to the results.
C13_NotFoundZeroOffers ==
    [][ /\ NotFound(tries') => hits' = hits
        /\ NotFound(tries) => (hits' = hits /\ tries' \in {tries, <<>>})
      ]_vars

\* the query-scoped failures: an answer that is no JSON, not found, rate
\* limited, server error, transport error
QueryFailures == {"badjson", "http404", "http429", "http500", "exc"}

QueryFailed(t) == t # <<>> /\ Last(t) \in QueryFailures

\* the entries of the results that are offers
OffersIn(h) == SelectSeq(h, LAMBDA e : ~e.err)

\* C14: a failed query adds no offer and removes none, the loop goes on
\* from it as from any other query, and nothing a query is answered with
\* ends the run: a scan ends only after the last query of its enumeration,
\* never by an error raised on the way.
C14_QueryErrorsContained ==
    [][ /\ (script \in {"grabaseat", "tequila"} /\ pc = "call"
            /\ QueryFailed(tries')) =>
               (hits' = hits /\ pc' = "sleep")
        /\ (script = "amadeus" /\ pc = "call" /\ QueryFailed(tries')) =>
               (hits' = hits /\ pc' = "continue")
        /\ (script = "premium" /\ pc = "attempt" /\ QueryFailed(tries')) =>
               (hits' = hits /\ pc' \in {"backoff", "got"})
        /\ (script = "premium" /\ pc = "got" /\ QueryFailed(tries)) =>
               /\ OffersIn(hits') = OffersIn(hits)
               /\ pc' = IF ci < Len(TO_PORTS) THEN "attempt" ELSE "fetched"
        /\ (script = "grabaseat" /\ pc' = "scanned") =>
               /\ ri = Len(PAIRS) /\ ci = Len(CABINS) /\ ni = Len(NIGHTS)
               /\ cur + STEP_DAYS > GWindow[2]
        /\ (script = "tequila" /\ pc' = "scanned") =>
               (ri = Len(ROUTES) /\ ci = Len(TCABINS))
        /\ (script = "amadeus" /\ pc' = "scanned") =>
               (ri = Len(ROUTES) /\ cur > AEnd)
        /\ (script = "premium" /\ pc' = "fetched") => ci = Len(TO_PORTS)
        /\ (script \in {"grabaseat", "amadeus", "tequila", "premium"}) =>
               pc' # "crashed"
      ]_vars

\* C15: without the provider credentials no query is sent, the route and
\* cabin loop is not gone through, and the run ends signalling failure.
C15_ConfigErrorFatal ==
    /\ (script = "amadeus" /\ ~cfg.token) =>
          (q = <<>> /\ pc \in {"main"} \cup Fatal)
    /\ (script = "tequila" /\ ~cfg.key) =>
          (q = <<>> /\ pc \in {"call"} \cup Fatal)
    /\ (script = "grabaseat" /\ ~cfg.to_email /\ ~cfg.dry_run) =>
          (q = <<>> /\ pc \in {"main"} \cup Fatal)

\* C16: every pass of a scanner through its provider call goes on to the
\* delay step (or ends the run), so that two calls are never back to back.
C16_PolitenessDelay ==
    [][ (script \in {"grabaseat", "amadeus", "tequila"} /\ pc = "call") =>
            pc' \in {"sleep", "crashed"} ]_vars

\* C17: a malformed item never aborts the scan of tequila nor makes
\* extract_itinerary raise, and parse_results yields the offer of every
\* well-formed item of a payload whatever the other items are.
C17_ItemFaultIsolation ==
    /\ script = "tequila" => pc # "crashed"
    /\ script = "extract_itinerary" => pc # "raised"
    /\ (script = "parse_results" /\ pc = "parsed") =>
          \A i \in DOMAIN GItemsOf(data) :
              parse_item(GItemsOf(data)[i]) # <<>> =>
                  \E k \in DOMAIN offers :
                      offers[k] = parse_item(GItemsOf(data)[i])[1]

\* the grouping has run
Grouped == pc \in {"grouped", "built"}

\* departure date and return date of a row of either script
RowDep(r) == IF script = "month_groups" THEN r.depart_date ELSE r.dep
RowRet(r) == IF script = "month_groups" THEN r.return_date ELSE r.ret

\* the <<year, month>> a bucket key stands for: "2025-11" read digit by
\* digit, "November 2025" by the name of the month
KeyYM(key) ==
    IF script = "month_groups"
    THEN <<(key[1] - 48) * 1000 + (key[2] - 48) * 100 + (key[3] - 48) * 10
               + (key[4] - 48),
           (key[6] - 48) * 10 + (key[7] - 48)>>
    ELSE <<key[2], CHOOSE m \in DOMAIN MonthNames : MonthNames[m] = key[1]>>

\* all rows of all buckets, and how often a row occurs in a sequence
AllRows == Flatten([b \in DOMAIN groups |-> groups[b].rows])
Count(seq, x) == Cardinality({i \in DOMAIN seq : seq[i] = x})

\* C18: the buckets partition the offers by month of departure: every
\* bucket has rows, all of the bucket's month; no two buckets have the
\* same key; and every offer occurs in the buckets exactly as often as
\* in the input.
C18_MonthPartition ==
    Grouped =>
        /\ \A b \in DOMAIN groups :
              /\ groups[b].rows # <<>>
              /\ \A i \in DOMAIN groups[b].rows :
                    KeyYM(groups[b].key) =
                        <<RowDep(groups[b].rows[i])[1],
                          RowDep(groups[b].rows[i])[2]>>
        /\ \A a, b \in DOMAIN groups :
              groups[a].key = groups[b].key => a = b
        /\ \A i \in DOMAIN hits :
              Count(AllRows, hits[i]) = Count(hits, hits[i])
        /\ Len(AllRows) = Len(hits)

\* C18 witness: three offers were grouped, two of one month (one of them
\* twice in the input is allowed) and one of another month.
C18_Witness ==
    /\ Grouped /\ Len(hits) = 3 /\ Len(groups) = 2
    /\ Len(groups[1].rows) = 2

\* C19: in every bucket the rows are ascending by (price, departure
\* date, return date).
C19_BucketRowOrder ==
    Grouped =>
        \A b \in DOMAIN groups :
            \A i \in 1..(Len(groups[b].rows) - 1) :
                LET r1 == groups[b].rows[i]
                    r2 == groups[b].rows[i + 1]
                IN  ~LexLess(<<r2.price_nzd>> \o RowDep(r2) \o RowRet(r2),
                             <<r1.price_nzd>> \o RowDep(r1) \o RowRet(r1))

\* C20: the buckets come in chronological order: every row of a bucket
\* departs in an earlier (year, month) than every row of the next.
C20_BucketsChronological ==
    Grouped =>
        \A b \in 1..(Len(groups) - 1) :
            \A i \in DOMAIN groups[b].rows :
                \A j \in DOMAIN groups[b + 1].rows :
                    LexLess(<<RowDep(groups[b].rows[i])[1],
                              RowDep(groups[b].rows[i])[2]>>,
                            <<RowDep(groups[b + 1].rows[j])[1],
                              RowDep(groups[b + 1].rows[j])[2]>>)

\* C20 witness: offers of January 2026, December 2025 and October 2026,
\* accumulated in that order, were grouped into three buckets.
C20_Witness ==
    /\ Grouped /\ Len(hits) = 3 /\ Len(groups) = 3
    /\ RowDep(hits[1])[1] = 2026 /\ RowDep(hits[1])[2] = 1
    /\ RowDep(hits[2])[1] = 2025
    /\ RowDep(hits[3])[2] = 10

\* C26: safe_get sleeps only between two attempts of one query: the k-th
\* sleep of a query follows its k-th failed attempt and lasts
\* k * BACKOFF_SECONDS, no sleep precedes the first attempt, and when
\* safe_get has returned there were fewer sleeps than attempts: none
\* follows the final attempt, a 404 or an answer.
C26_BackoffPlacement ==
    script = "premium" =>
        /\ Len(slept) <= Len(tries)
        /\ \A k \in DOMAIN slept :
              slept[k] = k * BACKOFF_SECONDS /\ tries[k] \notin Answered
        /\ pc = "attempt" => Len(slept) = Len(tries)
        /\ (pc = "got" /\ tries # <<>>) => Len(slept) = Len(tries) - 1

\* C27: for each (origin, destination) pair fetch appends either one
\* entry per fare of the answer, in the answer's order, flagged deal
\* exactly when the fare has a price of at most PE_PRICE_CAP, or one error
\* marker for that pair and nothing else; the entries of earlier pairs
\* stay as they are; and fetch then goes on to the next pair whatever
\* happened, ending only after the last one.
C27_AllOrNothing ==
    [][(script = "premium" /\ pc = "got") =>
        LET added == SubSeq(hits', Len(hits) + 1, Len(hits'))
            fares == data.data
        IN  /\ Len(hits') >= Len(hits)
            /\ SubSeq(hits', 1, Len(hits)) = hits
            /\ \/ added = <<ErrMarker(FROM_PORTS[ri], TO_PORTS[ci])>>
               \/ /\ data.k \in {"empty", "dict"}
                  /\ Len(added) = Len(fares)
                  /\ \A i \in 1..Len(fares) :
                        /\ ~added[i].err
                        /\ added[i].price = fares[i].price
                        /\ added[i].deal <=>
                              (fares[i].price.k = "num"
                               /\ fares[i].price.v <= PE_PRICE_CAP)
            /\ IF ci < Len(TO_PORTS)
               THEN ci' = ci + 1 /\ ri' = ri /\ pc' = "attempt"
               ELSE pc' = "fetched"
       ]_vars

\* C27 witness: fetch has ended with a deal, a fare over the cap, a fare
\* without a price (no deal) and the error marker of a failed pair in its
\* result.
C27_Witness ==
    /\ script = "premium" /\ pc = "fetched"
    /\ \E i, j, k, m \in DOMAIN hits :
          /\ i < j /\ j < k
          /\ ~hits[i].err /\ hits[i].deal
          /\ ~hits[j].err /\ ~hits[j].deal /\ hits[j].price.k = "num"
          /\ ~hits[k].err /\ ~hits[k].deal /\ hits[k].price.k = "none"
          /\ hits[m].err

\* the price of a row of a report
RowPrice(r) == IF script = "render_html" THEN r.price ELSE r.price_nzd

\* C21: the rows of the ungrouped result table are in ascending order of
\* price: of any two consecutive rows the first costs no more than the
\* second.
C21_RankedByPrice ==
    (script \in {"render_html", "anz_build_html"} /\ pc = "rendered") =>
        \A g \in DOMAIN groups :
            \A i \in 1..(Len(groups[g].rows) - 1) :
                RowPrice(groups[g].rows[i]) <= RowPrice(groups[g].rows[i + 1])

\* the rows h accumulated in another order: row i is row p[i] of h
Reordered(h, p) == [i \in 1..Len(h) |-> h[p[i]]]

\* the ordered output the script of this run builds from the rows h
Report(h) ==
    CASE script = "month_groups" -> month_groups(h)
      [] script = "build_html" -> build_html(h)
      [] script = "render_html" -> render_html(h)
      [] script = "anz_build_html" -> anz_build_html(h)

\* C22: the ordered output does not depend on the order in which the
\* rows were accumulated: the same rows accumulated in any other order
\* give the same sections with the same rows in the same order, rows that
\* tie on the sort key included.
C22_OrderIndependent ==
    (script \in {"month_groups", "build_html", "render_html",
                 "anz_build_html"}
     /\ pc \in {"grouped", "built", "rendered"}) =>
        \A p \in Permutations(1..Len(hits)) :
            Report(Reordered(hits, p)) = groups

\* the position of x in the sequence s
IndexOf(s, x) == CHOOSE i \in DOMAIN s : s[i] = x

\* the place of an emitted query in the nested enumeration: <<route,
\* cabin, departure date, night offset>>, each by its rank in the
\* configured order (an axis the script does not have counts as 0)
EnumKey(query) ==
    CASE script = "grabaseat" ->
            <<IndexOf(PAIRS, <<query.origin, query.destination>>),
              CHOOSE i \in DOMAIN CABINS : CABINS[i].name = query.cabin,
              query.depart, query.ret - query.depart>>
      [] script = "amadeus" ->
            <<IndexOf(ROUTES, <<query.origin, query.destination>>), 0,
              query.depart, query.ret - query.depart>>
      [] script = "tequila" ->
            <<IndexOf(ROUTES, <<query.origin, query.destination>>),
              IndexOf(TCABINS, query.cabin), query.date_from, 0>>
      [] script = "premium" ->
            <<(IndexOf(FROM_PORTS, query.origin) - 1) * Len(TO_PORTS)
                  + IndexOf(TO_PORTS, query.destination), 0, 0, 0>>

\* C25: the queries are emitted in the nested order routes, cabins,
\* departure dates, night offsets: each query emitted after another one
\* comes later in that order (a later route, or the same route and a later
\* cabin, or the same route and cabin and a later departure date, or only
\* a larger night offset), so that no query is emitted twice and the
\* sequence of a scan is fixed by its configuration.
C25_EnumerationOrder ==
    [][(script \in {"grabaseat", "amadeus", "tequila", "premium"}
        /\ q # <<>> /\ q' # q) =>
           LexLess(EnumKey(q[1]), EnumKey(q'[1]))]_vars

\* the scanners that write a result document, and the ends of a run of
\* one of them that no missing credential or configuration caused
Reporting == {"grabaseat", "amadeus", "tequila"}
EndedUnaborted == {"done", "exit2", "crashed"}

\* C23: a run that has ended, and was not aborted for missing credentials
\* or configuration, has written its result document whatever its queries
\* returned; the document is the one that says no fares qualify exactly
\* when the run found no qualifying offer, and a dry run that found none
\* ends normally.
C23_DocumentAlwaysWritten ==
    script \in Reporting =>
        /\ pc \in EndedUnaborted => doc # None
        /\ doc # None => (doc = "nofares" <=> hits = <<>>)
        /\ (pc \in EndedUnaborted /\ hits = <<>> /\ cfg.dry_run) =>
               pc = "done"

\* whether the run is configured to deliver its report
DeliveryConfigured ==
    CASE script = "tequila" -> cfg.webhook
      [] OTHER -> cfg.brevo

\* C24: with DRY_RUN no request is sent to the delivery service; at most
\* one request is sent in a run, so that none follows a failed one; and a
\* run that is configured to deliver and not dry has sent exactly one
\* when it ends.
C24_DeliveryAtMostOnce ==
    script \in Reporting \cup {"premium"} =>
        /\ cfg.dry_run => sent = <<>>
        /\ Len(sent) <= 1
        /\ \A i \in 1..(Len(sent) - 1) : sent[i].ok
        /\ (pc \in {"done", "exit2"} /\ ~cfg.dry_run /\ DeliveryConfigured)
               => Len(sent) = 1

====
